---- MODULE Spec2Model ----
(***************************************************************************)
(* daseg: decoding of per-word tag predictions back into a corpus of       *)
(* labelled, speaker-attributed functional segments.                       *)
(*                                                                         *)
(* predictions_to_dataset (daseg/transformer_model.py) pairs the calls of  *)
(* a corpus with the predicted tag lists, writes "word tag" lines into a   *)
(* temporary file, one blank line after every call, and hands the file to  *)
(* DialogActCorpus.from_transformers_predictions.  The decoder itself      *)
(* (daseg/data.py) is modelled from the specification and agrees with the  *)
(* expected values of tests/test_parsing_predictions.py.                   *)
(***************************************************************************)
EXTENDS Integers, Sequences, FiniteSets, TLC

VARIABLES dataset, predictions, convention, pc, i, f, err, result

vars == <<dataset, predictions, convention, pc, i, f, err, result>>

(***************************************************************************)
(* Bounds of the model.                                                    *)
(***************************************************************************)
MaxWords == 4      \* real words of a call, single-call corpora
MaxTurns == 4      \* turns of a call, single-call corpora
MaxCalls == 3      \* calls of a corpus, multi-call corpora
BatchWords == 1    \* real words of a call, multi-call corpora

Labels == {"Q", "S"}
Speakers == {"A", "B"}
Conventions == {"classic_from_begin", "classic_per_token", "joint_coding"}

(***************************************************************************)
(* Tags.  A tag string is modelled by its two parts: the boundary prefix   *)
(* before the dash ("B", "I" or none) and the label after it (or none).    *)
(*   'B-Q' = Tag("B","Q")   'I-Q' = Tag("I","Q")   'I-' = Tag("I","")      *)
(*   'Q'   = Tag("","Q")    'O'   = Tag("","O")                            *)
(***************************************************************************)
Tag(p, l) == [p |-> p, l |-> l]
O_TAG == Tag("", "O")
CONTINUE_TAG == Tag("I", "")
NEW_TURN == 0

HasLabel(t) == t.l \in Labels

ClassicTags == {Tag(p, l) : p \in {"B", "I"}, l \in Labels}
JointTags == {CONTINUE_TAG} \cup {Tag(p, l) : p \in {"I", ""}, l \in Labels}

WordTags(conv) == IF conv = "joint_coding" THEN JointTags ELSE ClassicTags

(***************************************************************************)
(* Generic helpers.                                                        *)
(***************************************************************************)
Min(a, b) == IF a < b THEN a ELSE b

Other(s) == IF s = "A" THEN "B" ELSE "A"

RECURSIVE Flatten(_)
Flatten(ss) == IF ss = <<>> THEN <<>> ELSE Head(ss) \o Flatten(Tail(ss))

RECURSIVE SumSeq(_)
SumSeq(s) == IF s = <<>> THEN 0 ELSE Head(s) + SumSeq(Tail(s))

\* the elements of a finite set of integers in increasing order
RECURSIVE Sorted(_)
Sorted(S) ==
    IF S = {} THEN <<>>
    ELSE LET m == CHOOSE x \in S : \A y \in S : x <= y
         IN <<m>> \o Sorted(S \ {m})

(***************************************************************************)
(* The corpus.  A call is a sequence of turns; a turn has a speaker and    *)
(* the words spoken in it.  Words are identified by their position among   *)
(* the real words of the call, so that a dropped, duplicated or reordered  *)
(* word is visible.                                                        *)
(***************************************************************************)
\* call.words(add_turn_token=True): the words of the call in reading
\* order with one turn token between consecutive turns
RECURSIVE CallWords(_)
CallWords(call) ==
    IF call = <<>> THEN <<>>
    ELSE IF Len(call) = 1 THEN call[1].words
    ELSE call[1].words \o <<NEW_TURN>> \o CallWords(Tail(call))

\* the real words of the call, without turn tokens
RealWords(call) == Flatten([t \in 1..Len(call) |-> call[t].words])

(***************************************************************************)
(* predictions_to_dataset: pairing, length assertion and the temporary     *)
(* file.  A line of the file is <<word, tag>>; the blank line written      *)
(* after every call is <<>>.                                               *)
(***************************************************************************)
\* zip(original_dataset.calls, predictions): the number of paired calls
ZipLen(calls, preds) == Min(Len(calls), Len(preds))

\* the assertion checking one direction only
CountsMatchOneWay(words, tags) == Len(words) <= Len(tags)

\* the condition of the assert statement
CountsMatch(words, tags) == Len(words) = Len(tags)

\* the pairing stopping one pair early
ZipPairsShort(words, tags) ==
    [k \in 1..(Min(Len(words), Len(tags)) - 1) |-> <<words[k], tags[k]>>]

\* zip(words, pred_tags): positional pairs, as many as the shorter list
ZipPairs(words, tags) ==
    [k \in 1..Min(Len(words), Len(tags)) |-> <<words[k], tags[k]>>]

\* the lines printed for one call: one per pair, then the blank line
CallLines(words, tags) == ZipPairs(words, tags) \o << <<>> >>

\* the text of the AssertionError
MismatchMessage(words, tags) ==
    [kind |-> "Mismatched words and predicted tags counts",
     words |-> Len(words), tags |-> Len(tags)]

NoError == [kind |-> "", words |-> 0, tags |-> 0]

(***************************************************************************)
(* The decoder: reading the file back.                                     *)
(***************************************************************************)
\* the calls of the file: maximal blocks of lines closed by a blank line
RECURSIVE ParseCalls(_, _)
ParseCalls(lines, cur) ==
    IF lines = <<>> THEN (IF cur = <<>> THEN <<>> ELSE <<cur>>)
    ELSE IF Len(Head(lines)) = 0
         THEN <<cur>> \o ParseCalls(Tail(lines), <<>>)
         ELSE ParseCalls(Tail(lines), Append(cur, Head(lines)))

\* the turn token skipped without closing the turn
RECURSIVE SplitTurnsMerged(_, _)
SplitTurnsMerged(pairs, cur) ==
    IF pairs = <<>> THEN <<cur>>
    ELSE IF Head(pairs)[1] = NEW_TURN
         THEN SplitTurnsMerged(Tail(pairs), cur)
         ELSE SplitTurnsMerged(Tail(pairs), Append(cur, Head(pairs)))

\* the turns of one call: the turn token closes a turn and is not a word
RECURSIVE SplitTurns(_, _)
SplitTurns(pairs, cur) ==
    IF pairs = <<>> THEN <<cur>>
    ELSE IF Head(pairs)[1] = NEW_TURN
         THEN <<cur>> \o SplitTurns(Tail(pairs), <<>>)
         ELSE SplitTurns(Tail(pairs), Append(cur, Head(pairs)))

(***************************************************************************)
(* Tag Decoder: the provisional segments of one turn.                      *)
(***************************************************************************)
\* every label change cuts, whatever the policy
ClassicStartsAnyChange(turn, conv) ==
    {k \in 1..Len(turn) :
        \/ k = 1
        \/ turn[k][2].p = "B"
        \/ turn[k][2].l # turn[k-1][2].l}

\* only a 'B-' tag cuts, whatever the policy
ClassicStartsBeginOnly(turn, conv) ==
    {k \in 1..Len(turn) : k = 1 \/ turn[k][2].p = "B"}

\* classic convention: the positions of a turn at which a segment starts
ClassicStarts(turn, conv) ==
    {k \in 1..Len(turn) :
        \/ k = 1
        \/ turn[k][2].p = "B"
        \/ /\ conv = "classic_per_token"
           /\ turn[k][2].l # turn[k-1][2].l}

\* a label-carrying tag opening a segment instead of closing the run
JointStartsAtLabel(turn) ==
    {k \in 1..Len(turn) : k = 1 \/ HasLabel(turn[k][2])}

\* joint coding: a run is closed by every tag that carries a label, so a
\* segment starts at the first word and after every label-carrying tag
JointStarts(turn) ==
    {k \in 1..Len(turn) : k = 1 \/ HasLabel(turn[k-1][2])}

SegmentStarts(turn, conv) ==
    IF conv = "joint_coding" THEN JointStarts(turn)
    ELSE ClassicStarts(turn, conv)

\* the provisional segments of turn number t, in order
TurnSegments(turn, t, conv) ==
    LET starts == Sorted(SegmentStarts(turn, conv))
        n == Len(starts)
        last(j) == IF j = n THEN Len(turn) ELSE starts[j+1] - 1
    IN [j \in 1..n |->
          LET a == starts[j]
              b == last(j)
          IN [turn |-> t,
              first |-> (j = 1),
              words |-> [k \in 1..(b - a + 1) |-> turn[a + k - 1][1]],
              \* classic: the label of the tag that opens the segment;
              \* joint coding: the label of the tag that closes the run
              label |-> IF conv = "joint_coding"
                        THEN (IF HasLabel(turn[b][2]) THEN turn[b][2].l ELSE "")
                        ELSE turn[a][2].l,
              open |-> (conv = "joint_coding" /\ ~HasLabel(turn[b][2])),
              inside |-> (turn[a][2].p = "I")]]

\* the provisional segments of a call, turn after turn
ProvisionalSegments(turns, conv) ==
    Flatten([t \in 1..Len(turns) |-> TurnSegments(turns[t], t, conv)])

(***************************************************************************)
(* Segment Reassembler: speakers, labels of runs left open at a turn       *)
(* boundary, continuation flags.                                           *)
(***************************************************************************)
SpeakerOf(skeleton, t) ==
    IF t \in 1..Len(skeleton) THEN skeleton[t].speaker ELSE "?"

\* the closest earlier segment of the same speaker, 0 if there is none
PrevSameSpeaker(prov, skeleton, k) ==
    LET S == {j \in 1..(k-1) :
                SpeakerOf(skeleton, prov[j].turn) = SpeakerOf(skeleton, prov[k].turn)}
    IN IF S = {} THEN 0 ELSE CHOOSE j \in S : \A x \in S : x <= j

\* the later segments of the same speaker that carry a label
LaterLabelled(prov, skeleton, k) ==
    {j \in (k+1)..Len(prov) :
        /\ SpeakerOf(skeleton, prov[j].turn) = SpeakerOf(skeleton, prov[k].turn)
        /\ ~prov[j].open}

\* the label of segment k: its own, or for a run left open at the end of a
\* turn the label with which the same speaker closes it after resuming
ResolvedLabel(prov, skeleton, k) ==
    IF ~prov[k].open THEN prov[k].label
    ELSE LET L == LaterLabelled(prov, skeleton, k)
         IN IF L = {} THEN ""
            ELSE prov[CHOOSE j \in L : \A x \in L : j <= x].label

\* the continuation taken from the segment just before, whoever spoke it
IsContinuationAnySpeaker(prov, skeleton, conv, k) ==
    /\ prov[k].first
    /\ k > 1
    /\ IF conv = "joint_coding"
       THEN prov[k-1].open
       ELSE /\ prov[k].inside
            /\ prov[k-1].label = prov[k].label

\* segment k resumes, at the start of a turn, the segment that the same
\* speaker left unfinished at the end of an earlier turn
IsContinuation(prov, skeleton, conv, k) ==
    LET j == PrevSameSpeaker(prov, skeleton, k)
    IN /\ prov[k].first
       /\ j # 0
       /\ prov[j].turn # prov[k].turn
       /\ IF conv = "joint_coding"
          THEN prov[j].open
          ELSE /\ prov[k].inside
               /\ prov[j].label = prov[k].label

FunctionalSegment(words, da, speaker, cont) ==
    [words |-> words, dialog_act |-> da, speaker |-> speaker,
     is_continuation |-> cont]

Decoded(segs) == [ok |-> TRUE, error |-> "", segments |-> segs]
Failed(e) == [ok |-> FALSE, error |-> e, segments |-> <<>>]

\* a run that is never closed dropped without an error
DecodeCallDropOpen(pairs, skeleton, conv) ==
    LET turns == SplitTurns(pairs, <<>>)
        prov == ProvisionalSegments(turns, conv)
        kept == Sorted({k \in 1..Len(prov) : ResolvedLabel(prov, skeleton, k) # ""})
    IN IF \E k \in 1..Len(pairs) :
             pairs[k][1] # NEW_TURN /\ pairs[k][2] \notin WordTags(conv)
       THEN Failed("UnknownTagToken")
       ELSE Decoded([n \in 1..Len(kept) |->
                FunctionalSegment(prov[kept[n]].words,
                                  ResolvedLabel(prov, skeleton, kept[n]),
                                  SpeakerOf(skeleton, prov[kept[n]].turn),
                                  IsContinuation(prov, skeleton, conv, kept[n]))])

\* one call of the file decoded on the turn skeleton of the original call
DecodeCall(pairs, skeleton, conv) ==
    LET turns == SplitTurns(pairs, <<>>)
        prov == ProvisionalSegments(turns, conv)
    IN IF \E k \in 1..Len(pairs) :
             pairs[k][1] # NEW_TURN /\ pairs[k][2] \notin WordTags(conv)
       THEN Failed("UnknownTagToken")
       ELSE IF \E k \in 1..Len(prov) : ResolvedLabel(prov, skeleton, k) = ""
       THEN Failed("DanglingOpenSegment")
       ELSE Decoded([k \in 1..Len(prov) |->
                FunctionalSegment(prov[k].words,
                                  ResolvedLabel(prov, skeleton, k),
                                  SpeakerOf(skeleton, prov[k].turn),
                                  IsContinuation(prov, skeleton, conv, k))])

\* DialogActCorpus.from_transformers_predictions: one outcome per call of
\* the file, in file order
from_transformers_predictions(file, calls, conv) ==
    LET parsed == ParseCalls(file, <<>>)
    IN [k \in 1..Len(parsed) |->
          DecodeCall(parsed[k], IF k <= Len(calls) THEN calls[k] ELSE <<>>, conv)]

(***************************************************************************)
(* The corpora and predictions the model starts from.                      *)
(***************************************************************************)
\* the ways of cutting n words into at most k non-empty turns
RECURSIVE Comps(_, _)
Comps(n, k) ==
    IF n = 0 THEN {<<>>}
    ELSE IF k = 0 THEN {}
    ELSE UNION {{<<m>> \o r : r \in Comps(n - m, k - 1)} : m \in 1..n}

\* a call with the given turn lengths; speakers alternate from `first`
MkCall(comp, first) ==
    [t \in 1..Len(comp) |->
        [speaker |-> IF t % 2 = 1 THEN first ELSE Other(first),
         words |-> [j \in 1..comp[t] |-> SumSeq(SubSeq(comp, 1, t - 1)) + j]]]

DecodeCalls ==
    {MkCall(c, s) : c \in UNION {Comps(n, MaxTurns) : n \in 1..MaxWords},
                    s \in Speakers}

BatchCalls ==
    {MkCall(c, "A") : c \in UNION {Comps(n, 2) : n \in 1..BatchWords}}

\* the tag lists of the right length: any tag of the set on a word, 'O' on
\* a turn token
RECURSIVE TagSeqs(_, _)
TagSeqs(words, tagset) ==
    IF words = <<>> THEN {<<>>}
    ELSE LET here == IF Head(words) = NEW_TURN THEN {O_TAG} ELSE tagset
         IN {<<t>> \o r : t \in here, r \in TagSeqs(Tail(words), tagset)}

BatchTags(conv) ==
    IF conv = "joint_coding" THEN {CONTINUE_TAG, Tag("", "Q")}
    ELSE {Tag("B", "Q"), Tag("I", "S")}

\* for a call of a multi-call corpus: the tag lists of the right length,
\* one list that is one tag short and one that is one tag long
BatchTagLists(words, conv) ==
    LET right == TagSeqs(words, BatchTags(conv))
        one == CHOOSE t \in right : TRUE
    IN right \cup {SubSeq(one, 1, Len(one) - 1), Append(one, O_TAG)}

RECURSIVE PredSeqs(_, _)
PredSeqs(calls, conv) ==
    IF calls = <<>> THEN {<<>>}
    ELSE {<<t>> \o r : t \in BatchTagLists(CallWords(Head(calls)), conv),
                       r \in PredSeqs(Tail(calls), conv)}

\* as many tag lists as calls, one fewer, or one more
BatchPredictions(calls, conv) ==
    LET full == PredSeqs(calls, conv)
    IN full \cup {SubSeq(p, 1, Len(p) - 1) : p \in full}
            \cup {Append(p, <<O_TAG>>) : p \in full}

Start ==
    /\ pc = "loop"
    /\ i = 1
    /\ f = <<>>
    /\ err = NoError
    /\ result = <<>>

\* one call, every turn layout and every tag list of the convention
InitDecode ==
    /\ convention \in Conventions
    /\ dataset \in {<<c>> : c \in DecodeCalls}
    /\ predictions \in {<<t>> : t \in TagSeqs(CallWords(dataset[1]),
                                              WordTags(convention))}
    /\ Start

\* several calls, well-formed and malformed tag lists, any pairing
InitBatch ==
    /\ convention \in Conventions
    /\ dataset \in UNION {[1..n -> BatchCalls] : n \in 1..MaxCalls}
    /\ predictions \in BatchPredictions(dataset, convention)
    /\ Start

Init == InitDecode \/ InitBatch

(***************************************************************************)
(* predictions_to_dataset, one step per iteration of the loop over the     *)
(* paired calls.                                                           *)
(***************************************************************************)
\* an iteration whose assertion holds: the lines of the call are printed
WriteCall ==
    /\ pc = "loop"
    /\ i <= ZipLen(dataset, predictions)
    /\ CountsMatch(CallWords(dataset[i]), predictions[i])
    /\ f' = f \o CallLines(CallWords(dataset[i]), predictions[i])
    /\ i' = i + 1
    /\ UNCHANGED <<dataset, predictions, convention, pc, err, result>>

\* an iteration whose assertion fails: the AssertionError leaves the
\* function, the with-block removes the file, nothing is returned
AssertionFails ==
    /\ pc = "loop"
    /\ i <= ZipLen(dataset, predictions)
    /\ ~CountsMatch(CallWords(dataset[i]), predictions[i])
    /\ pc' = "raised"
    /\ err' = MismatchMessage(CallWords(dataset[i]), predictions[i])
    /\ f' = <<>>
    /\ UNCHANGED <<dataset, predictions, convention, i, result>>

\* the loop is over: flush, decode the file, return the corpus
Return ==
    /\ pc = "loop"
    /\ i > ZipLen(dataset, predictions)
    /\ result' = from_transformers_predictions(f, dataset, convention)
    /\ pc' = "returned"
    /\ f' = <<>>
    /\ UNCHANGED <<dataset, predictions, convention, i, err>>

Next == WriteCall \/ AssertionFails \/ Return

Spec == Init /\ [][Next]_vars

(***************************************************************************)
(* Vocabulary of the properties: the input of a call as the caller sees    *)
(* it (turn layout and tag list), and the decoded output.                  *)
(***************************************************************************)
\* the calls that were returned successfully decoded
OkCalls == IF pc = "returned" THEN {c \in DOMAIN result : result[c].ok} ELSE {}

Segs(c) == result[c].segments

WordsOfTurn(call, t) == {call[t].words[j] : j \in 1..Len(call[t].words)}

TurnOfWord(call, w) == CHOOSE t \in 1..Len(call) : w \in WordsOfTurn(call, t)

\* the predicted tag of a real word: one turn token precedes every turn
\* but the first
TagOfWord(c, w) == predictions[c][w + TurnOfWord(dataset[c], w) - 1]

FirstInTurn(call, w) == call[TurnOfWord(call, w)].words[1] = w

LastInTurn(call, w) ==
    LET ws == call[TurnOfWord(call, w)].words IN ws[Len(ws)] = w

FirstWord(seg) == seg.words[1]
LastWord(seg) == seg.words[Len(seg.words)]

CountMismatch(k) == Len(CallWords(dataset[k])) # Len(predictions[k])

NumLabelled(tags) == Cardinality({p \in 1..Len(tags) : HasLabel(tags[p])})

\* the turns of call c whose last word is tagged with the bare 'I-'
OpenTurns(c) ==
    {t \in 1..Len(dataset[c]) :
        LET ws == dataset[c][t].words
        IN TagOfWord(c, ws[Len(ws)]) = CONTINUE_TAG}

C2_MismatchFailsFast ==
    /\ pc = "loop" =>
         LET parsed == ParseCalls(f, <<>>)
         IN /\ Len(parsed) = i - 1
            /\ \A k \in 1..(i - 1) :
                 /\ ~CountMismatch(k)
                 /\ Len(parsed[k]) = Len(CallWords(dataset[k]))
    /\ pc = "returned" =>
         \A k \in 1..ZipLen(dataset, predictions) : ~CountMismatch(k)
    /\ pc = "raised" =>
         /\ CountMismatch(i)
         /\ err.words = Len(CallWords(dataset[i]))
         /\ err.tags = Len(predictions[i])
         /\ result = <<>>

\* the error was raised for the second call, which had one tag too many
C2_Witness ==
    /\ pc = "raised"
    /\ i = 2
    /\ err.tags = err.words + 1

(***************************************************************************)
(* C3: with as many tag lists as calls and exactly one malformed call,     *)
(* the batch returns: the malformed call is reported as failed, every      *)
(* other call is decoded.                                                  *)
(***************************************************************************)
Malformed(k) ==
    \/ CountMismatch(k)
    \/ ~DecodeCall(ZipPairs(CallWords(dataset[k]), predictions[k]),
                   dataset[k], convention).ok

C3_BatchIsolation ==
    (/\ pc # "loop"
     /\ Len(predictions) = Len(dataset)
     /\ Cardinality({k \in 1..Len(dataset) : Malformed(k)}) = 1)
    => /\ pc = "returned"
       /\ DOMAIN result = 1..Len(dataset)
       /\ \A k \in 1..Len(dataset) : result[k].ok = ~Malformed(k)

(***************************************************************************)
(* C10: when the function returns, every call of the original corpus is    *)
(* in the result, decoded or reported as failed, also when there are       *)
(* fewer tag lists than calls.                                             *)
(***************************************************************************)
C10_NoSilentLoss ==
    pc = "returned" => \A k \in 1..Len(dataset) : k \in DOMAIN result

Resumes(c, k) ==
    LET segs == Segs(c)
        seg == segs[k]
        P == {j \in 1..(k - 1) : segs[j].speaker = seg.speaker}
    IN /\ FirstInTurn(dataset[c], FirstWord(seg))
       /\ P # {}
       /\ LET j == CHOOSE x \in P : \A y \in P : y <= x
          IN /\ segs[j].dialog_act = seg.dialog_act
             /\ \E m \in (j + 1)..(k - 1) : segs[m].speaker # seg.speaker
             /\ IF convention = "joint_coding"
                THEN TagOfWord(c, LastWord(segs[j])) = CONTINUE_TAG
                ELSE TagOfWord(c, FirstWord(seg)).p = "I"

ClosedLater(c, t) ==
    \E u \in (t + 1)..Len(dataset[c]) :
        /\ dataset[c][u].speaker = dataset[c][t].speaker
        /\ \E w \in WordsOfTurn(dataset[c], u) : HasLabel(TagOfWord(c, w))

====
